---- MODULE Spec2Model ----
(***************************************************************************)
(* Model of seafile-uploader (src/main.go, lines 1-667: the last and most  *)
(* complete version of the program).                                        *)
(*                                                                          *)
(*   Spec          the upload relay: concurrent POST /upload handlers, the  *)
(*                 remote directory listing / mkdir / upload endpoints and  *)
(*                 the detached callback tasks.                             *)
(*   SpecDownload  the download relay (GET /get/<path>).                    *)
(*   SpecStartup   main(): ConfigureApp, MaybeLoginRequest, StartWebServer. *)
(*                                                                          *)
(* Strings whose content the program never inspects are modelled by a tag   *)
(* and their length in bytes (Go's len); strings the program compares are   *)
(* TLA+ strings.                                                            *)
(***************************************************************************)
EXTENDS Integers, Sequences, FiniteSets, TLC

VARIABLES
    req,        \* upload relay: one record per request handler (goroutine)
    remote,     \* the remote service's folders: dir -> [exists, entries]
    upcalls,    \* per request: the upload calls the remote received from it
    mkdirs,     \* per request: the directory-create calls issued, with results
    cbs,        \* the detached callback tasks still running
    dl,         \* download relay: the state of one GET /get/ request
    st          \* startup: the state of main()

vars == <<req, remote, upcalls, mkdirs, cbs, dl, st>>

-----------------------------------------------------------------------------
(* Program constants *)

UPLOADED_FILE_HASH_SIZE == 40
REPO_ID_SIZE == 36
PATH_DOESNT_EXIST_MSG == "Path does not exist"
DefaultFolder == "/test/"
DefaultCallback == "http://localhost:3000/seafile_uploads"

(* Bounds of the model *)

MaxFiles == 2       \* file parts in one multipart form

Requests == {"h1", "h2"}    \* the request handlers (goroutines) followed
Names == {"report.pdf", "notes.txt"}
Dirs == {"/test/", "/docs/"}

-----------------------------------------------------------------------------
(* JSON bodies, as far as the program's decoders tell them apart.           *)
(*   kind "string"  : a JSON string, str its value                          *)
(*   kind "object"  : a JSON object; error_msg is the value of its          *)
(*                    "error_msg" member ("" when absent or empty);         *)
(*                    strvals: every member's value is a string             *)
(*   kind "array"   : a JSON array of directory entries                     *)
(*   kind "null"    : the JSON literal null                                 *)
(*   kind "garbage" : not JSON (an HTML error page, an empty body)          *)

Body(kind, str, error_msg, strvals, entries) ==
    [kind |-> kind, str |-> str, error_msg |-> error_msg,
     strvals |-> strvals, entries |-> entries]

JString(s) == Body("string", s, "", TRUE, <<>>)
JError(m) == Body("object", "", m, TRUE, <<>>)
JObjectOther == Body("object", "", "", TRUE, <<>>)
JObjectNonString == Body("object", "", "", FALSE, <<>>)
JArray(es) == Body("array", "", "", TRUE, es)
JNull == Body("null", "", "", TRUE, <<>>)
Garbage == Body("garbage", "", "", TRUE, <<>>)

(* A reply of the remote service: the transport error of client.Do ("" when *)
(* the call went through) and the body read.                                *)
Reply(neterr, body) == [neterr |-> neterr, body |-> body]

ConnRefused == "dial tcp: connection refused"
UnknownServerResponse == "Unknown server response: ..."
UnknownResponse == "Unknown response: ..."
JsonSyntaxError == "invalid character '<' looking for beginning of value"
JsonTypeError == "json: cannot unmarshal into Go value"

FileEntry(n) == [type |-> "file", name |-> n]
DirEntry(n) == [type |-> "dir", name |-> n]

-----------------------------------------------------------------------------
(* Remote API client *)

RECURSIVE FileNames(_)
(* ListDirectory's loop: the names of the entries of type "file", in order. *)
FileNames(entries) ==
    IF entries = <<>> THEN <<>>
    ELSE LET rest == FileNames(Tail(entries))
         IN  IF Head(entries).type = "file"
             THEN <<Head(entries).name>> \o rest
             ELSE rest

(* json.Unmarshal(data, &filespecs): an array of entries, or null, decodes. *)
DecodesAsFileSpecs(body) == body.kind \in {"array", "null"}

(* json.Unmarshal(data, &map[string]string): an object of strings, or null. *)
DecodesAsStringMap(body) ==
    \/ body.kind = "null"
    \/ body.kind = "object" /\ body.strvals

(* ListDirectory: (err, files); err = "" is Go's nil error. *)
ListDirectory(reply) ==
    IF reply.neterr # "" THEN [err |-> reply.neterr, files |-> <<>>]
    ELSE IF DecodesAsFileSpecs(reply.body)
    THEN [err |-> "", files |-> FileNames(reply.body.entries)]
    ELSE IF DecodesAsStringMap(reply.body) /\ reply.body.error_msg # ""
    THEN [err |-> reply.body.error_msg, files |-> <<>>]
    ELSE [err |-> UnknownServerResponse, files |-> <<>>]

IsDirectoryExistPrefix(listing) ==
    IF listing.err = "" THEN [err |-> "", files |-> listing.files, exist |-> TRUE]
    ELSE IF listing.err \in {PATH_DOESNT_EXIST_MSG, "Path does not exist."}
    THEN [err |-> "", files |-> <<>>, exist |-> FALSE]
    ELSE [err |-> listing.err, files |-> <<>>, exist |-> FALSE]

(* IsDirectoryExist, applied to ListDirectory's result. *)
IsDirectoryExist(listing) ==
    IF listing.err = "" THEN [err |-> "", files |-> listing.files, exist |-> TRUE]
    ELSE IF listing.err = PATH_DOESNT_EXIST_MSG
    THEN [err |-> "", files |-> <<>>, exist |-> FALSE]
    ELSE [err |-> listing.err, files |-> <<>>, exist |-> FALSE]

(* CreateDirectory: the error returned, "" for nil. *)
CreateDirectory(reply) ==
    IF reply.neterr # "" THEN reply.neterr
    ELSE IF reply.body = JString("success") THEN ""
    ELSE IF ~DecodesAsStringMap(reply.body)
    THEN (IF reply.body.kind = "garbage" THEN JsonSyntaxError ELSE JsonTypeError)
    ELSE IF reply.body.error_msg # "" THEN "Cannot create directory"
    ELSE ""

-----------------------------------------------------------------------------
(* The upload endpoint's reply: the transport error of client.Do or of      *)
(* reading the body ("" when none), the HTTP status, and the body as its    *)
(* content class and its length in bytes. stored: the remote saved the file.*)

UploadReply(neterr, status, kind, len, stored) ==
    [neterr |-> neterr, status |-> status, kind |-> kind, len |-> len,
     stored |-> stored]

UploadReplies ==
    { UploadReply("", 200, "hash", UPLOADED_FILE_HASH_SIZE, TRUE),
      UploadReply("", 200, "quoted hash", UPLOADED_FILE_HASH_SIZE + 2, TRUE),
      UploadReply("", 500, "text", UPLOADED_FILE_HASH_SIZE, FALSE),
      UploadReply("", 441, "text", UPLOADED_FILE_HASH_SIZE - 1, FALSE),
      UploadReply("", 200, "hash", UPLOADED_FILE_HASH_SIZE + 1, FALSE),
      UploadReply("", 200, "text", 0, FALSE),
      UploadReply(ConnRefused, 0, "none", 0, FALSE) }

UploadFileResultStatus(reply) ==
    IF reply.neterr # "" THEN reply.neterr
    ELSE IF reply.status # 200 \/ reply.len # UPLOADED_FILE_HASH_SIZE
    THEN "Cannot upload"
    ELSE ""

(* UploadFile, lines 425-442: the error returned ("" for nil), decided by    *)
(* the transport error and then by len(response) alone.                      *)
UploadFileResult(reply) ==
    IF reply.neterr # "" THEN reply.neterr
    ELSE IF reply.len # UPLOADED_FILE_HASH_SIZE THEN "Cannot upload"
    ELSE ""

(* UploadFile, lines 402-414: the error with which the request body is      *)
(* given up before the call. copyerr is io.Copy's error; line 411 assigns   *)
(* err again from multipart_writer.Close(), which writes to a bytes.Buffer  *)
(* and returns nil, so io.Copy's error is never looked at.                  *)
UploadBodyError(copyerr) == ""

(* fetchValue: the first form value if there is one and it is not empty.    *)
fetchValue(values, defaultValue) ==
    IF Len(values) > 0 /\ values[1] # "" THEN values[1] ELSE defaultValue

FoundFirstOnly(name, files_exist) ==
    Len(files_exist) > 0 /\ files_exist[1] = name

(* uploadHandler, lines 523-530: the inner loop over files_exist.           *)
Found(name, files_exist) ==
    \E k \in 1..Len(files_exist) : files_exist[k] = name

-----------------------------------------------------------------------------
(* The remote service saves a file into a folder. A name already there is   *)
(* kept once: the service's copy under another name is no name of Names.    *)
Store(entries, name) ==
    IF \E k \in 1..Len(entries) : entries[k] = FileEntry(name)
    THEN entries
    ELSE Append(entries, FileEntry(name))

(* What the remote service answers to a directory listing of d: its state,  *)
(* or a failure.                                                            *)
ListReplies(d) ==
    { IF remote[d].exists
      THEN Reply("", JArray(remote[d].entries))
      ELSE Reply("", JError(PATH_DOESNT_EXIST_MSG)) }
    \cup { Reply(ConnRefused, Garbage),
           Reply("", JError("Permission denied")),
           Reply("", JError("Path does not exist.")),
           Reply("", JObjectOther),
           Reply("", Garbage) }

(* What it answers to a directory create: mkdir done, or a failure.         *)
MkdirFailures ==
    { Reply(ConnRefused, Garbage),
      Reply("", JError("Permission denied")),
      Reply("", JObjectOther),
      Reply("", JNull),
      Reply("", JString("failed")),
      Reply("", Garbage) }

MkdirDone == Reply("", JString("success"))

(* The names of the files the remote service holds in folder d. *)
FilesIn(d) ==
    { remote[d].entries[k].name :
        k \in { j \in 1..Len(remote[d].entries) :
                  remote[d].entries[j].type = "file" } }

(* What ListDirectory returned to a request, once it has. *)
NotTaken == [taken |-> FALSE, err |-> "", files |-> <<>>]
Taken(listing) == [taken |-> TRUE, err |-> listing.err, files |-> listing.files]

AfterCheckNoMkdir(dir_exist) == "files"

(* uploadHandler, lines 513-518: CreateDirectory is next when !dir_exist.    *)
AfterCheck(dir_exist) == IF dir_exist THEN "files" ELSE "mkdir"

(* One handler's state. before and listing are not variables of the         *)
(* program: before is the remote folder's file names at the time the        *)
(* request arrived, listing is what ListDirectory returned to it.           *)
Idle ==
    [pc |-> "idle", method |-> "", dir |-> "", callback_url |-> "",
     files |-> <<>>, files_exist |-> <<>>, dir_exist |-> FALSE,
     i |-> 1, uploaded |-> 0, code |-> 0, text |-> "", before |-> {},
     listing |-> NotTaken]

(* http.Error(w, err.Error(), code) followed by return. *)
HttpError(r, text, code) ==
    [r EXCEPT !.pc = "done", !.code = code, !.text = text]

Batches == UNION { [1..n -> Names] : n \in 0..MaxFiles }

(* The folders the remote service may hold at the start: none, or /docs/    *)
(* with a subfolder and a file in it.                                       *)
InitialFolders(d) ==
    { [exists |-> FALSE, entries |-> <<>>] } \cup
    IF d = "/docs/"
    THEN { [exists |-> TRUE,
            entries |-> <<DirEntry("report.pdf"), FileEntry("notes.txt")>>] }
    ELSE {}

InitUpload ==
    /\ req = [r \in Requests |-> Idle]
    /\ remote \in { f \in [Dirs -> UNION { InitialFolders(d) : d \in Dirs }] :
                       \A d \in Dirs : f[d] \in InitialFolders(d) }
    /\ upcalls = [r \in Requests |-> <<>>]
    /\ mkdirs = [r \in Requests |-> <<>>]
    /\ cbs = {}

(* uploadHandler, lines 481-505 and 559-561: the method switch, the form    *)
(* parse, and the folder and callback form values.                          *)
Receive(r) ==
    /\ req[r].pc = "idle"
    /\ \E method \in {"GET", "POST", "DELETE"}, parsed \in BOOLEAN,
          folder \in {<<>>, <<"">>, <<"/docs/">>},
          callback \in {<<>>, <<"http://cb/">>},
          files \in Batches :
          req' = [req EXCEPT ![r] =
                    IF method = "GET"
                    THEN [@ EXCEPT !.pc = "done", !.method = method,
                                   !.code = 200, !.text = "form"]
                    ELSE IF method # "POST"
                    THEN [@ EXCEPT !.pc = "done", !.method = method, !.code = 405]
                    ELSE IF ~parsed
                    THEN HttpError([@ EXCEPT !.method = method],
                                   "multipart: message too large", 500)
                    ELSE [@ EXCEPT !.pc = "exist", !.method = method,
                                   !.dir = fetchValue(folder, DefaultFolder),
                                   !.callback_url = fetchValue(callback, DefaultCallback),
                                   !.files = files,
                                   !.before = FilesIn(fetchValue(folder, DefaultFolder))]]
    /\ UNCHANGED <<remote, upcalls, mkdirs, cbs, dl, st>>

(* uploadHandler, lines 507-513: IsDirectoryExist(dir). *)
CheckDir(r) ==
    /\ req[r].pc = "exist"
    /\ \E reply \in ListReplies(req[r].dir) :
          LET listing == ListDirectory(reply)
              res == IsDirectoryExist(listing)
          IN  req' = [req EXCEPT ![r] =
                        IF res.err # ""
                        THEN HttpError([@ EXCEPT !.listing = Taken(listing)],
                                       res.err, 500)
                        ELSE [@ EXCEPT !.pc = AfterCheck(res.exist),
                                       !.files_exist = res.files,
                                       !.dir_exist = res.exist,
                                       !.listing = Taken(listing)]]
    /\ UNCHANGED <<remote, upcalls, mkdirs, cbs, dl, st>>

(* uploadHandler, lines 513-518: CreateDirectory(dir) when !dir_exist. *)
MakeDir(r) ==
    /\ req[r].pc = "mkdir"
    /\ \E reply \in MkdirFailures \cup {MkdirDone} :
          LET err == CreateDirectory(reply)
          IN  /\ req' = [req EXCEPT ![r] =
                           IF err # "" THEN HttpError(@, err, 500)
                           ELSE [@ EXCEPT !.pc = "files"]]
              /\ remote' = IF reply = MkdirDone
                           THEN [remote EXCEPT ![req[r].dir].exists = TRUE]
                           ELSE remote
              /\ mkdirs' = [mkdirs EXCEPT ![r] =
                              Append(@, [dir |-> req[r].dir, err |-> err,
                                         reply |-> reply])]
    /\ UNCHANGED <<upcalls, cbs, dl, st>>

SkipCounted(r) ==
    /\ req[r].pc = "files"
    /\ req[r].i <= Len(req[r].files)
    /\ Found(req[r].files[req[r].i], req[r].files_exist)
    /\ req' = [req EXCEPT ![r].i = @ + 1, ![r].uploaded = @ + 1]
    /\ UNCHANGED <<remote, upcalls, mkdirs, cbs, dl, st>>

RECURSIVE NamesOf(_)
NamesOf(entries) ==
    IF entries = <<>> THEN <<>>
    ELSE (IF Head(entries).type = "file" THEN <<Head(entries).name>> ELSE <<>>)
             \o NamesOf(Tail(entries))

SkipRefreshing(r) ==
    /\ req[r].pc = "files"
    /\ req[r].i <= Len(req[r].files)
    /\ Found(req[r].files[req[r].i], NamesOf(remote[req[r].dir].entries))
    /\ req' = [req EXCEPT ![r].i = @ + 1,
                          ![r].files_exist = NamesOf(remote[req[r].dir].entries)]
    /\ UNCHANGED <<remote, upcalls, mkdirs, cbs, dl, st>>

(* uploadHandler, lines 522-533: a file found in files_exist is skipped. *)
Skip(r) ==
    /\ req[r].pc = "files"
    /\ req[r].i <= Len(req[r].files)
    /\ Found(req[r].files[req[r].i], req[r].files_exist)
    /\ req' = [req EXCEPT ![r].i = @ + 1]
    /\ UNCHANGED <<remote, upcalls, mkdirs, cbs, dl, st>>

(* uploadHandler, lines 536-542: files[i].Open() fails. *)
OpenFails(r) ==
    /\ req[r].pc = "files"
    /\ req[r].i <= Len(req[r].files)
    /\ ~Found(req[r].files[req[r].i], req[r].files_exist)
    /\ req' = [req EXCEPT ![r] = HttpError(@, "open: no such file", 500)]
    /\ UNCHANGED <<remote, upcalls, mkdirs, cbs, dl, st>>

AfterUploadGoesOn(err) == "files"

(* uploadHandler, lines 544-549: an error of UploadFile is answered with    *)
(* http.Error and the handler returns; without one the loop goes on.        *)
AfterUpload(err) == IF err # "" THEN "done" ELSE "files"

DispatchesAlways(err, callback_url) == callback_url # ""

(* UploadFile, lines 438-446: the goroutine is started after the length     *)
(* check has passed, when callback_url is not empty.                        *)
Dispatches(err, callback_url) == err = "" /\ callback_url # ""

(* uploadHandler, lines 536-551, and UploadFile: the file is opened, copied *)
(* into the multipart body (copyerr: io.Copy's error, after which the body  *)
(* holds only a part of the file), posted to the upload link, and the reply *)
(* decides; on success the callback task is started and uploaded counts.    *)
Upload(r) ==
    /\ req[r].pc = "files"
    /\ req[r].i <= Len(req[r].files)
    /\ ~Found(req[r].files[req[r].i], req[r].files_exist)
    /\ \E copyerr \in {"", "read: input/output error"} :
          LET name == req[r].files[req[r].i]
              d == req[r].dir
              bodyerr == UploadBodyError(copyerr)
          IN  IF bodyerr # ""
              THEN /\ req' = [req EXCEPT ![r] = HttpError(@, bodyerr, 500)]
                   /\ UNCHANGED <<remote, upcalls, cbs>>
              ELSE \E reply \in UploadReplies :
                   LET err == UploadFileResult(reply)
                   IN  /\ reply.stored => remote[d].exists
                       /\ upcalls' = [upcalls EXCEPT ![r] = Append(@,
                              [filename |-> name, parent_dir |-> d,
                               partial |-> (copyerr # ""), reply |-> reply,
                               ok |-> (err = ""),
                               callback |-> Dispatches(err, req[r].callback_url)])]
                       /\ remote' = IF reply.stored
                                    THEN [remote EXCEPT ![d].entries =
                                            Store(@, name)]
                                    ELSE remote
                       /\ IF err # ""
                          THEN /\ req' = [req EXCEPT ![r] =
                                           [HttpError(@, err, 500)
                                               EXCEPT !.pc = AfterUpload(err)]]
                               /\ cbs' = cbs
                          ELSE /\ req' = [req EXCEPT ![r].i = @ + 1,
                                                     ![r].uploaded = @ + 1]
                               /\ cbs' = IF Dispatches(err, req[r].callback_url)
                                         THEN cbs \cup
                                              {[req |-> r, idx |-> req[r].i,
                                                url |-> req[r].callback_url,
                                                folder |-> d, file |-> name,
                                                hash |-> reply.kind]}
                                         ELSE cbs
    /\ UNCHANGED <<mkdirs, dl, st>>

FinishCountsAll(r) ==
    /\ req[r].pc = "files"
    /\ req[r].i > Len(req[r].files)
    /\ req' = [req EXCEPT ![r].pc = "done", ![r].code = 200,
                          ![r].text = "Upload successful",
                          ![r].uploaded = Len(req[r].files)]
    /\ UNCHANGED <<remote, upcalls, mkdirs, cbs, dl, st>>

(* uploadHandler, lines 554-558: the summary page. *)
Finish(r) ==
    /\ req[r].pc = "files"
    /\ req[r].i > Len(req[r].files)
    /\ req' = [req EXCEPT ![r].pc = "done", ![r].code = 200,
                          ![r].text = "Upload successful"]
    /\ UNCHANGED <<remote, upcalls, mkdirs, cbs, dl, st>>

(* The handler has answered and returned; the next request may use it. The  *)
(* record of the request's calls is dropped; what it uploaded stays in      *)
(* remote.                                                                  *)
Return(r) ==
    /\ req[r].pc = "done"
    /\ req' = [req EXCEPT ![r] = Idle]
    /\ upcalls' = [upcalls EXCEPT ![r] = <<>>]
    /\ mkdirs' = [mkdirs EXCEPT ![r] = <<>>]
    /\ cbs' = { c \in cbs : c.req # r }
    /\ UNCHANGED <<remote, dl, st>>

(* Requests handled one after another: a request arrives when no other is   *)
(* being handled.                                                           *)
Arrive(r) ==
    /\ \A q \in Requests : req[q].pc = "idle"
    /\ Receive(r)

(* UploadFile, lines 447-456: the detached goroutine's http.Get returns,    *)
(* with an error or without, and the goroutine logs the one or the other    *)
(* and ends.                                                                *)
Callback ==
    /\ \E c \in cbs : cbs' = cbs \ {c}
    /\ UNCHANGED <<req, remote, upcalls, mkdirs, dl, st>>

-----------------------------------------------------------------------------
(* Download relay *)

MaxBody == 5        \* the longest upstream body, in blocks of 512 KiB

(* downloadHandler, line 621: buf_size, 1 MiB, in blocks of 512 KiB. *)
buf_size == 2

headers_to_forward_all ==
    <<"If-Modified-Since", "Accept", "Accept-Encoding", "Accept-Language",
      "Cache-Control", "Pragma", "Cookie">>

headers_to_forward ==
    <<"If-Modified-Since", "Accept", "Accept-Encoding", "Accept-Language",
      "Cache-Control", "Pragma">>

headers_to_return == <<"Cache-Control", "Last-Modified">>

(* The headers a client may send and the upstream may answer with, beside   *)
(* those of the two lists. A header map gives each name its first value,    *)
(* "" when the header is absent, as Header.Get does.                        *)
RequestHeaderNames ==
    {"If-Modified-Since", "Cache-Control", "Cookie", "Range"}
ResponseHeaderNames ==
    {"Cache-Control", "Last-Modified", "Set-Cookie", "Access-Control-Allow-Origin"}

Get(headers, name) == IF name \in DOMAIN headers THEN headers[name] ELSE ""

RequestHeaders ==
    { [n \in RequestHeaderNames \cup {"Connection"} |->
          IF n = "Connection" THEN c
          ELSE IF n \in present THEN "from client" ELSE ""] :
      present \in SUBSET RequestHeaderNames, c \in {"", "keep-alive", "close"} }

ResponseHeaders ==
    { [n \in ResponseHeaderNames |-> IF n \in present THEN "from upstream" ELSE ""] :
      present \in SUBSET ResponseHeaderNames }

Header(name, value) == [name |-> name, value |-> value]

(* The values of a list's headers that a header map holds. *)
Forwarded(list, headers) ==
    { Header(list[k], Get(headers, list[k])) :
        k \in { j \in 1..Len(list) : Get(headers, list[j]) # "" } }

(* An upstream body of n blocks: block k of the file is the number k. *)
Blocks(n) == [k \in 1..n |-> k]

StatusText(code) ==
    CASE code = 200 -> "200 OK"
      [] code = 206 -> "206 Partial Content"
      [] code = 304 -> "304 Not Modified"
      [] code = 404 -> "404 Not Found"
      [] OTHER -> "500 Internal Server Error"

UpstreamResponses ==
    { [code |-> c, status |-> StatusText(c), headers |-> h, body |-> Blocks(n)] :
        c \in {200, 206, 304, 404}, h \in ResponseHeaders, n \in 0..MaxBody }

NoResponse == [code |-> 0, status |-> "", headers |-> <<>>, body |-> <<>>]

LinkResult(ok, link, err) == [ok |-> ok, link |-> link, err |-> err]

GetDownloadFileLinkLax(reply) ==
    IF reply.neterr # "" THEN LinkResult(FALSE, "", reply.neterr)
    ELSE IF reply.body.kind = "garbage" THEN LinkResult(FALSE, "", JsonSyntaxError)
    ELSE IF reply.body.kind = "string" THEN LinkResult(TRUE, reply.body.str, "")
    ELSE IF reply.body.kind = "object" /\ reply.body.strvals
            /\ reply.body.error_msg # ""
    THEN LinkResult(FALSE, "", reply.body.error_msg)
    ELSE LinkResult(TRUE, "", "")

(* GetDownloadFileLink: the link, or the error. The body is decoded into an *)
(* interface{}: anything that is JSON decodes, and the type switch tells a  *)
(* string from an object with a string error_msg from everything else.      *)
GetDownloadFileLink(reply) ==
    IF reply.neterr # "" THEN LinkResult(FALSE, "", reply.neterr)
    ELSE IF reply.body.kind = "garbage" THEN LinkResult(FALSE, "", JsonSyntaxError)
    ELSE IF reply.body.kind = "string" THEN LinkResult(TRUE, reply.body.str, "")
    ELSE IF reply.body.kind = "object" /\ reply.body.strvals
            /\ reply.body.error_msg # ""
    THEN LinkResult(FALSE, "", reply.body.error_msg)
    ELSE LinkResult(FALSE, "", UnknownResponse)

GoodLink == "https://seafile:8082/files/adee6094/foo.c"
BadLink == "%zz"

LinkReplies ==
    { Reply("", JString(GoodLink)),
      Reply("", JString(BadLink)),
      Reply("", JString("")),
      Reply("", JError("File not found")),
      Reply("", JObjectOther),
      Reply("", JObjectNonString),
      Reply("", JNull),
      Reply("", JArray(<<>>)),
      Reply("", Garbage),
      Reply(ConnRefused, Garbage) }

(* http.NewRequest parses the link. *)
LinkParses(link) == link # BadLink

StreamsAnySuccess(code) == code \in {200, 206}

(* downloadHandler, lines 608-609: the status switch streams on 200 only. *)
Streams(code) == code = 200

(* strings.Replace(path, "/get/", "/", 1) on the path as its segments. *)
StripGet(path) ==
    IF \E k \in 1..Len(path) : path[k] = "get"
    THEN LET k == CHOOSE j \in 1..Len(path) :
                      /\ path[j] = "get"
                      /\ \A m \in 1..(j - 1) : path[m] # "get"
         IN  SubSeq(path, 1, k - 1) \o SubSeq(path, k + 1, Len(path))
    ELSE path

(* The response writer: the status, http.Error's text, the headers set, the *)
(* body blocks written, and the body length at each Flush.                   *)
NoReply == [code |-> 0, text |-> "", headers |-> {}, body |-> <<>>, flushes |-> <<>>]

DlIdle ==
    [pc |-> "idle", method |-> "", path |-> <<>>, headers |-> <<>>,
     reply |-> Reply("", JNull), resolved |-> FALSE, link |-> "",
     sfr |-> {}, fetched |-> FALSE, up |-> NoResponse, pos |-> 0,
     w |-> NoReply]

DlError(d, text, code) ==
    [d EXCEPT !.pc = "done", !.w.code = code, !.w.text = text,
              !.w.headers = @ \cup {Header("Content-Type", "text/plain; charset=utf-8"),
                                    Header("X-Content-Type-Options", "nosniff")}]

(* downloadHandler, lines 565-574 and 646-648: the method switch and the    *)
(* parse of the request URI.                                                *)
DlReceive ==
    /\ dl.pc = "idle"
    /\ \E method \in {"GET", "POST"}, uriok \in BOOLEAN,
          path \in {<<"get", "foo", "bar.txt">>, <<"get", "missing.txt">>},
          headers \in RequestHeaders :
          dl' = IF method # "GET"
                THEN [dl EXCEPT !.pc = "done", !.method = method, !.w.code = 405]
                ELSE IF ~uriok
                THEN DlError([dl EXCEPT !.method = method],
                             "parse: invalid URI for request", 500)
                ELSE [dl EXCEPT !.pc = "resolve", !.method = method,
                                !.path = StripGet(path), !.headers = headers]
    /\ UNCHANGED <<req, remote, upcalls, mkdirs, cbs, st>>

(* downloadHandler, lines 576-594: the link is fetched and the upstream     *)
(* request is made with the headers of headers_to_forward.                  *)
DlResolve ==
    /\ dl.pc = "resolve"
    /\ \E reply \in LinkReplies :
          LET res == GetDownloadFileLink(reply)
              d == [dl EXCEPT !.reply = reply, !.resolved = TRUE]
          IN  dl' = IF ~res.ok THEN DlError(d, res.err, 500)
                    ELSE IF ~LinkParses(res.link)
                    THEN DlError([d EXCEPT !.link = res.link],
                                 "parse: invalid URL escape", 500)
                    ELSE [d EXCEPT !.pc = "fetch", !.link = res.link,
                                   !.sfr = Forwarded(headers_to_forward, dl.headers)]
    /\ UNCHANGED <<req, remote, upcalls, mkdirs, cbs, st>>

(* downloadHandler, lines 596-618 and 640-644: client.Do(sfr), the          *)
(* Connection header, and the status switch: on 200 the headers of          *)
(* headers_to_return, otherwise http.Error with the upstream status.        *)
DlFetch ==
    /\ dl.pc = "fetch"
    /\ \E up \in UpstreamResponses \cup {NoResponse} :
          LET d == [dl EXCEPT !.fetched = TRUE, !.up = up]
              keep == IF Get(dl.headers, "Connection") = "keep-alive"
                      THEN {Header("Connection", "keep-alive")} ELSE {}
          IN  /\ dl.link = "" => up = NoResponse
              /\ dl' = IF up = NoResponse
                       THEN DlError(d, IF dl.link = "" THEN "unsupported protocol scheme"
                                       ELSE ConnRefused, 500)
                       ELSE IF Streams(up.code)
                       THEN [d EXCEPT !.pc = "stream", !.w.code = 200,
                                      !.w.headers = keep
                                          \cup {Header("Access-Control-Allow-Origin", "*")}
                                          \cup Forwarded(headers_to_return, up.headers)]
                       ELSE DlError([d EXCEPT !.w.headers = keep], up.status, up.code)
    /\ UNCHANGED <<req, remote, upcalls, mkdirs, cbs, st>>

(* downloadHandler, lines 623-638: one turn of the loop. io.CopyN copies    *)
(* buf_size blocks and the output is flushed; with fewer blocks left it     *)
(* copies them and returns io.EOF, which ends the loop.                     *)
DlChunk ==
    /\ dl.pc = "stream"
    /\ LET left == Len(dl.up.body) - dl.pos
           n == IF left < buf_size THEN left ELSE buf_size
           written == dl.w.body \o SubSeq(dl.up.body, dl.pos + 1, dl.pos + n)
       IN  dl' = IF left < buf_size
                 THEN [dl EXCEPT !.pc = "done", !.pos = @ + n, !.w.body = written]
                 ELSE [dl EXCEPT !.pos = @ + n, !.w.body = written,
                                 !.w.flushes = Append(@, Len(written))]
    /\ UNCHANGED <<req, remote, upcalls, mkdirs, cbs, st>>

(* downloadHandler, lines 626-632: the connection was interrupted: io.CopyN *)
(* wrote only a part of the chunk and returned another error than io.EOF.   *)
DlInterrupted ==
    /\ dl.pc = "stream"
    /\ dl.pos < Len(dl.up.body)
    /\ \E n \in 0..(buf_size - 1) :
          /\ dl.pos + n <= Len(dl.up.body)
          /\ dl' = [dl EXCEPT !.pc = "done", !.pos = @ + n,
                              !.w.body = @ \o SubSeq(dl.up.body, dl.pos + 1, dl.pos + n),
                              !.w.text = "interrupted"]
    /\ UNCHANGED <<req, remote, upcalls, mkdirs, cbs, st>>

(* The handler has returned; the next request. *)
DlReturn ==
    /\ dl.pc = "done"
    /\ dl' = DlIdle
    /\ UNCHANGED <<req, remote, upcalls, mkdirs, cbs, st>>

InitIdleUpload ==
    /\ req = [r \in Requests |-> Idle]
    /\ remote = [d \in Dirs |-> [exists |-> FALSE, entries |-> <<>>]]
    /\ upcalls = [r \in Requests |-> <<>>]
    /\ mkdirs = [r \in Requests |-> <<>>]
    /\ cbs = {}

-----------------------------------------------------------------------------
(* Startup: main() *)

(* The reply to GET /api2/default-repo/: a JSON object whose "exists"       *)
(* member is true, false, missing or no boolean, and whose "repo_id" member *)
(* is a string of idlen bytes, missing or no string; or no such object.     *)
RepoReply(neterr, kind, exists, idkind, idlen) ==
    [neterr |-> neterr, kind |-> kind, exists |-> exists,
     idkind |-> idkind, idlen |-> idlen]

(* {"detail": "Authentication credentials were not provided."} *)
Unauthorized == RepoReply("", "object", "missing", "missing", 0)

RepoIdLengths == {0, REPO_ID_SIZE - 1, REPO_ID_SIZE, REPO_ID_SIZE + 1}

RepoReplies ==
    { RepoReply(ConnRefused, "garbage", "missing", "missing", 0),
      RepoReply("", "garbage", "missing", "missing", 0),
      RepoReply("", "null", "missing", "missing", 0),
      RepoReply("", "string", "missing", "missing", 0) }
    \cup { RepoReply("", "object", e, "string", n) :
             e \in {"true", "false", "missing", "no boolean"}, n \in RepoIdLengths }
    \cup { RepoReply("", "object", e, k, 0) :
             e \in {"true", "false"}, k \in {"missing", "no string"} }
    \cup { Unauthorized }

(* What a service that works as documented answers: the repository when the *)
(* request carries a token, the 401 object otherwise.                       *)
RepoRepliesOf(healthy, token) ==
    IF ~healthy THEN RepoReplies
    ELSE IF token = "" THEN { Unauthorized }
    ELSE { RepoReply("", "object", "true", "string", REPO_ID_SIZE) }

RepoResult(outcome, err, set, len) ==
    [outcome |-> outcome, err |-> err, set |-> set, len |-> len]

GetDefaultRepoAtMost(reply) ==
    IF reply.neterr # "" THEN RepoResult("error", reply.neterr, FALSE, 0)
    ELSE IF reply.kind = "garbage" THEN RepoResult("error", JsonSyntaxError, FALSE, 0)
    ELSE IF reply.kind \notin {"object", "null"}
    THEN RepoResult("error", JsonTypeError, FALSE, 0)
    ELSE IF reply.kind = "null" \/ reply.exists \notin {"true", "false"}
    THEN RepoResult("panic", "interface conversion", FALSE, 0)
    ELSE IF reply.exists = "false"
    THEN RepoResult("error", "Repo doesn't exists", FALSE, 0)
    ELSE IF reply.idkind # "string"
    THEN RepoResult("panic", "interface conversion", FALSE, 0)
    ELSE IF reply.idlen > REPO_ID_SIZE
    THEN RepoResult("error", "Invalid default_repo", TRUE, reply.idlen)
    ELSE RepoResult("nil", "", TRUE, reply.idlen)

(* GetDefaultRepo: nil, an error, or the panic of a failed type assertion;  *)
(* default_repo is assigned before its length is looked at.                 *)
GetDefaultRepo(reply) ==
    IF reply.neterr # "" THEN RepoResult("error", reply.neterr, FALSE, 0)
    ELSE IF reply.kind = "garbage" THEN RepoResult("error", JsonSyntaxError, FALSE, 0)
    ELSE IF reply.kind \notin {"object", "null"}
    THEN RepoResult("error", JsonTypeError, FALSE, 0)
    ELSE IF reply.kind = "null" \/ reply.exists \notin {"true", "false"}
    THEN RepoResult("panic", "interface conversion", FALSE, 0)
    ELSE IF reply.exists = "false"
    THEN RepoResult("error", "Repo doesn't exists", FALSE, 0)
    ELSE IF reply.idkind # "string"
    THEN RepoResult("panic", "interface conversion", FALSE, 0)
    ELSE IF reply.idlen # REPO_ID_SIZE
    THEN RepoResult("error", "Invalid default_repo", TRUE, reply.idlen)
    ELSE RepoResult("nil", "", TRUE, reply.idlen)

(* PingAuth: the error, "" for nil. null decodes and leaves jsonData empty. *)
PingAuth(reply) ==
    IF reply.neterr # "" THEN reply.neterr
    ELSE IF reply.body.kind = "garbage" THEN JsonSyntaxError
    ELSE IF reply.body.kind \notin {"string", "null"} THEN JsonTypeError
    ELSE IF reply.body.kind = "string" /\ reply.body.str = "pong" THEN ""
    ELSE "Ping was replied with: ..."

PingReplies ==
    { Reply("", JString("pong")), Reply("", JString("ping")),
      Reply("", JObjectOther), Reply("", JNull), Reply("", Garbage),
      Reply(ConnRefused, Garbage) }

PingRepliesOf(healthy, token) ==
    IF ~healthy THEN PingReplies
    ELSE IF token = "" THEN { Reply("", JObjectOther) }
    ELSE { Reply("", JString("pong")) }

(* GetUploadLink: the error ("" for nil) and the link decoded; null decodes *)
(* and leaves upload_link as it was.                                        *)
GetUploadLink(reply, upload_link) ==
    IF reply.neterr # "" THEN [err |-> reply.neterr, link |-> upload_link]
    ELSE IF reply.body.kind = "garbage"
    THEN [err |-> JsonSyntaxError, link |-> upload_link]
    ELSE IF reply.body.kind = "string" THEN [err |-> "", link |-> reply.body.str]
    ELSE IF reply.body.kind = "null" THEN [err |-> "", link |-> upload_link]
    ELSE [err |-> JsonTypeError, link |-> upload_link]

UploadLinkReplies ==
    { Reply("", JString("http://seafile:8082/upload-api/ef881b22")),
      Reply("", JString("")),
      Reply("", JError("Permission denied")), Reply("", JNull),
      Reply("", Garbage), Reply(ConnRefused, Garbage) }

UploadLinkRepliesOf(healthy, token) ==
    IF ~healthy THEN UploadLinkReplies
    ELSE IF token = "" THEN { Reply("", JObjectOther) }
    ELSE { Reply("", JString("http://seafile:8082/upload-api/ef881b22")) }

(* The reply to POST /api2/auth-token/: an object with or without           *)
(* non_field_errors and with a token that is a string, empty, or missing.   *)
LoginReply(neterr, kind, errors, token) ==
    [neterr |-> neterr, kind |-> kind, errors |-> errors, token |-> token]

LoginReplies ==
    { LoginReply(ConnRefused, "garbage", FALSE, "missing"),
      LoginReply("", "garbage", FALSE, "missing"),
      LoginReply("", "null", FALSE, "missing") }
    \cup { LoginReply("", "object", e, t) :
             e \in BOOLEAN, t \in {"missing", "", "24fd3c02"} }

LoginRepliesOf(healthy) ==
    IF ~healthy THEN LoginReplies
    ELSE { LoginReply("", "object", FALSE, "24fd3c02") }

(* Login: nil, an error or a panic, and the token it leaves. *)
Login(reply, token) ==
    IF reply.neterr # "" THEN [outcome |-> "error", err |-> reply.neterr, token |-> token]
    ELSE IF reply.kind = "garbage"
    THEN [outcome |-> "error", err |-> JsonSyntaxError, token |-> token]
    ELSE IF reply.kind = "object" /\ reply.errors
    THEN [outcome |-> "error", err |-> "Unable to login with provided credentials.",
          token |-> token]
    ELSE IF reply.kind = "null" \/ reply.token = "missing"
    THEN [outcome |-> "panic", err |-> "interface conversion", token |-> token]
    ELSE IF reply.token = ""
    THEN [outcome |-> "error", err |-> "No token returned.", token |-> token]
    ELSE [outcome |-> "nil", err |-> "", token |-> reply.token]

NoRepoReply == RepoReply("", "none", "missing", "missing", 0)

StIdle ==
    [pc |-> "start", args |-> <<>>, token |-> "", seafile_url |-> "",
     listen |-> "", default_repo |-> [set |-> FALSE, len |-> 0],
     upload_link |-> "", exit |-> "", text |-> "", printed |-> "",
     steps |-> <<>>, repo |-> NoRepoReply, healthy |-> FALSE,
     handled |-> FALSE]

(* log.Fatalln: the process ends with the message. *)
Fatal(s, text) == [s EXCEPT !.pc = "exited", !.exit = "fatal", !.text = text]
Panic(s, text) == [s EXCEPT !.pc = "exited", !.exit = "panic", !.text = text]

IsLogin(args) == Len(args) > 1 /\ args[2] = "login"

(* healthy is not a variable of the program: it records that the service   *)
(* is reachable and answers every call as its API documents.                *)
(* ConfigureApp, lines 58-80: the environment is read; the token is         *)
(* required, and the ping made, unless the subcommand is login.             *)
StConfigure ==
    /\ st.pc = "start"
    /\ \E token \in {"", "15f1fdbf"}, url \in {"", "https://seafile"},
          listen \in {"", ":8080"},
          args \in { <<"seafile-uploader">>, <<"seafile-uploader", "serve">>,
                     <<"seafile-uploader", "login">>,
                     <<"seafile-uploader", "login", "user", "secret">> },
          healthy \in BOOLEAN :
          LET s == [st EXCEPT !.args = args, !.token = token,
                              !.seafile_url = url, !.listen = listen,
                              !.healthy = healthy]
          IN  st' = IF url = "" THEN Fatal(s, "SEAFILE_URL is blank.")
                    ELSE LET t == [s EXCEPT !.listen = IF listen = "" THEN ":8881" ELSE listen,
                                            !.steps = Append(@, "configured")]
                         IN  IF ~IsLogin(args)
                             THEN IF token = ""
                                  THEN Fatal(t, "SEAFILE_TOKEN is blank.")
                                  ELSE [t EXCEPT !.pc = "ping"]
                             ELSE [t EXCEPT !.pc = "repo"]
    /\ UNCHANGED <<req, remote, upcalls, mkdirs, cbs, dl>>

(* ConfigureApp, lines 76-78: PingAuth. *)
StPing ==
    /\ st.pc = "ping"
    /\ \E reply \in PingRepliesOf(st.healthy, st.token) :
          LET err == PingAuth(reply)
          IN  st' = IF err # "" THEN Fatal(st, err)
                    ELSE [st EXCEPT !.pc = "repo", !.steps = Append(@, "pong")]
    /\ UNCHANGED <<req, remote, upcalls, mkdirs, cbs, dl>>

(* ConfigureApp, lines 82-84: GetDefaultRepo. *)
StRepo ==
    /\ st.pc = "repo"
    /\ \E reply \in RepoRepliesOf(st.healthy, st.token) :
          LET res == GetDefaultRepo(reply)
              s == [st EXCEPT !.repo = reply,
                              !.default_repo = IF res.set
                                               THEN [set |-> TRUE, len |-> res.len]
                                               ELSE @]
          IN  st' = IF res.outcome = "panic" THEN Panic(s, res.err)
                    ELSE IF res.outcome = "error" THEN Fatal(s, res.err)
                    ELSE [s EXCEPT !.pc = "uplink", !.steps = Append(@, "repo")]
    /\ UNCHANGED <<req, remote, upcalls, mkdirs, cbs, dl>>

(* ConfigureApp, lines 86-88: GetUploadLink. *)
StUploadLink ==
    /\ st.pc = "uplink"
    /\ \E reply \in UploadLinkRepliesOf(st.healthy, st.token) :
          LET res == GetUploadLink(reply, st.upload_link)
          IN  st' = IF res.err # "" THEN Fatal(st, res.err)
                    ELSE [st EXCEPT !.pc = "login", !.upload_link = res.link,
                                    !.steps = Append(@, "upload link")]
    /\ UNCHANGED <<req, remote, upcalls, mkdirs, cbs, dl>>

(* MaybeLoginRequest: with the login subcommand, Login is called, the token *)
(* printed and the process exits; without it the server is next.            *)
StLogin ==
    /\ st.pc = "login"
    /\ IF ~IsLogin(st.args)
       THEN st' = [st EXCEPT !.pc = "serve"]
       ELSE IF Len(st.args) < 4
       THEN st' = Fatal(st, "USAGE: seafile-uploader login username password")
       ELSE \E reply \in LoginRepliesOf(st.healthy) :
                LET res == Login(reply, st.token)
                IN  st' = IF res.outcome = "panic" THEN Panic(st, res.err)
                          ELSE IF res.outcome = "error" THEN Fatal(st, res.err)
                          ELSE [st EXCEPT !.pc = "exited", !.exit = "exit 0",
                                          !.token = res.token,
                                          !.printed = res.token,
                                          !.steps = Append(@, "login")]
    /\ UNCHANGED <<req, remote, upcalls, mkdirs, cbs, dl>>

(* StartWebServer: the handlers are registered and http.ListenAndServe      *)
(* serves, or fails (the address is in use) and log.Fatal ends the process. *)
StServe ==
    /\ st.pc = "serve"
    /\ \E listening \in BOOLEAN :
          st' = IF listening
                THEN [st EXCEPT !.pc = "serving", !.steps = Append(@, "serving")]
                ELSE Fatal(st, "listen tcp: address already in use")
    /\ UNCHANGED <<req, remote, upcalls, mkdirs, cbs, dl>>

(* http.ListenAndServe hands a request to a handler, which works with the  *)
(* token, default_repo and upload_link that startup left.                   *)
StHandle ==
    /\ st.pc = "serving"
    /\ ~st.handled
    /\ st' = [st EXCEPT !.handled = TRUE]
    /\ UNCHANGED <<req, remote, upcalls, mkdirs, cbs, dl>>

InitStartup ==
    /\ InitIdleUpload
    /\ dl = DlIdle
    /\ st = StIdle

NextStartup ==
    \/ StConfigure
    \/ StPing
    \/ StRepo
    \/ StUploadLink
    \/ StLogin
    \/ StServe
    \/ StHandle

SpecStartup == InitStartup /\ [][NextStartup]_vars

InitDownload ==
    /\ InitIdleUpload
    /\ dl = DlIdle
    /\ st = StIdle

NextDownload ==
    \/ DlReceive
    \/ DlResolve
    \/ DlFetch
    \/ DlChunk
    \/ DlInterrupted
    \/ DlReturn

SpecDownload == InitDownload /\ [][NextDownload]_vars

Init ==
    /\ InitUpload
    /\ dl = DlIdle
    /\ st = StIdle

Next ==
    \/ \E r \in Requests : Arrive(r)
    \/ \E r \in Requests : CheckDir(r)
    \/ \E r \in Requests : MakeDir(r)
    \/ \E r \in Requests : Skip(r)
    \/ \E r \in Requests : OpenFails(r)
    \/ \E r \in Requests : Upload(r)
    \/ \E r \in Requests : Finish(r)
    \/ \E r \in Requests : Return(r)
    \/ Callback

Spec == Init /\ [][Next]_vars

(* Requests handled in parallel: net/http runs every handler on a goroutine *)
(* of its own and the handlers take no lock, so a request arrives whatever  *)
(* the other handler is doing. The requests are POSTs of one file, and the  *)
(* remote service works: it lists what it holds, creates the folder asked   *)
(* for, and stores a file and answers with its hash or cannot be reached.   *)
ArriveAnyTime(r) ==
    /\ Receive(r)
    /\ req'[r].pc = "exist"
    /\ Len(req'[r].files) = 1

CheckDirListed(r) ==
    /\ CheckDir(r)
    /\ req'[r].listing.err \in {"", PATH_DOESNT_EXIST_MSG}

MakeDirDone(r) ==
    /\ MakeDir(r)
    /\ mkdirs'[r][Len(mkdirs'[r])].reply = MkdirDone

UploadWhole(r) ==
    /\ Upload(r)
    /\ LET e == upcalls'[r][Len(upcalls'[r])]
       IN  /\ ~e.partial
           /\ e.reply \in { UploadReply("", 200, "hash", UPLOADED_FILE_HASH_SIZE, TRUE),
                            UploadReply(ConnRefused, 0, "none", 0, FALSE) }

InitConcurrent ==
    /\ InitUpload
    /\ dl = DlIdle
    /\ st = StIdle

NextConcurrent ==
    \/ \E r \in Requests : ArriveAnyTime(r)
    \/ \E r \in Requests : CheckDirListed(r)
    \/ \E r \in Requests : MakeDirDone(r)
    \/ \E r \in Requests : Skip(r)
    \/ \E r \in Requests : UploadWhole(r)
    \/ \E r \in Requests : Finish(r)
    \/ \E r \in Requests : Return(r)
    \/ Callback

SpecConcurrent == InitConcurrent /\ [][NextConcurrent]_vars

-----------------------------------------------------------------------------
(* Properties of the upload relay, checked under Spec *)

Posted(r) == req[r].method = "POST" /\ req[r].listing.taken

UploadedNames(r) == [k \in 1..Len(upcalls[r]) |-> upcalls[r][k].filename]

Listed(n, names) == \E j \in 1..Len(names) : names[j] = n

(* C1: IsDirectoryExist classifies ListDirectory's outcome three ways. The  *)
(* folder is taken as absent, without an error, if and only if the listing  *)
(* error is exactly "Path does not exist" (the handler then goes on to the  *)
(* directory create); every other listing error is returned, and the        *)
(* request ends with it before any create or upload; without an error the   *)
(* folder exists and the listed file names are passed through unchanged.    *)
C1_ThreeWayClassification ==
    \A r \in Requests :
        req[r].listing.taken =>
            LET l == req[r].listing
                absent == /\ ~req[r].dir_exist
                          /\ req[r].pc = "mkdir" \/ mkdirs[r] # <<>>
            IN  /\ absent <=> l.err = PATH_DOESNT_EXIST_MSG
                /\ l.err \notin {"", PATH_DOESNT_EXIST_MSG} =>
                       /\ req[r].pc = "done" /\ req[r].code = 500
                       /\ req[r].text = l.err
                       /\ mkdirs[r] = <<>> /\ upcalls[r] = <<>>
                /\ l.err = "" =>
                       /\ req[r].dir_exist
                       /\ req[r].files_exist = l.files
                       /\ mkdirs[r] = <<>>

C1_Witness ==
    \E r \in Requests :
        /\ req[r].listing.taken
        /\ req[r].listing.err = PATH_DOESNT_EXIST_MSG
        /\ req[r].pc = "mkdir"

(* C2: a submitted file whose name equals a name of the folder's listing is *)
(* skipped: no upload call is issued for it and it is not counted. The skip *)
(* never ends the batch: while the handler is in its loop, and when it has  *)
(* answered with success, the upload calls issued are exactly the           *)
(* unlisted files among those passed, in order, each counted once.          *)
C2_ListedFilesSkipped ==
    \A r \in Requests :
        LET fe == req[r].files_exist
            passed == SubSeq(req[r].files, 1, req[r].i - 1)
            unlisted == SelectSeq(passed, LAMBDA n : ~Listed(n, fe))
        IN  /\ \A k \in 1..Len(upcalls[r]) : ~Listed(upcalls[r][k].filename, fe)
            /\ req[r].uploaded <= Len(upcalls[r])
            /\ (req[r].pc = "files" \/ (req[r].pc = "done" /\ req[r].code = 200
                                        /\ req[r].method = "POST")) =>
                   /\ UploadedNames(r) = unlisted
                   /\ req[r].uploaded = Len(unlisted)
            /\ (req[r].pc = "done" /\ req[r].code = 200 /\ req[r].method = "POST") =>
                   req[r].i = Len(req[r].files) + 1

C2_Witness ==
    \E r \in Requests :
        /\ req[r].pc = "done" /\ req[r].code = 200
        /\ Len(req[r].files) = 2
        /\ Listed(req[r].files[1], req[r].files_exist)
        /\ ~Listed(req[r].files[2], req[r].files_exist)
        /\ UploadedNames(r) = <<req[r].files[2]>>
        /\ req[r].uploaded = 1

(* C3: an upload call is issued only after the folder was reported existing *)
(* (and no create call was made), or reported absent and then created by    *)
(* exactly one create call that returned no error; every upload call has    *)
(* parent_dir equal to the folder. If the create call returns an error the  *)
(* request ends with 500, no upload call and no callback. A single new file *)
(* to an absent folder, answered with success, made one create call, one    *)
(* upload call and reports a count of 1.                                    *)
C3_FolderEnsuredBeforeUpload ==
    \A r \in Requests :
        LET created == /\ Len(mkdirs[r]) = 1
                       /\ mkdirs[r][1].err = ""
                       /\ mkdirs[r][1].dir = req[r].dir
        IN  /\ Len(mkdirs[r]) <= 1
            /\ upcalls[r] # <<>> =>
                   /\ req[r].listing.taken /\ req[r].listing.err \in {"", PATH_DOESNT_EXIST_MSG}
                   /\ \/ req[r].dir_exist /\ mkdirs[r] = <<>>
                      \/ ~req[r].dir_exist /\ created
                   /\ \A k \in 1..Len(upcalls[r]) :
                          upcalls[r][k].parent_dir = req[r].dir
            /\ mkdirs[r] # <<>> => ~req[r].dir_exist
            /\ (mkdirs[r] # <<>> /\ mkdirs[r][1].err # "") =>
                   /\ req[r].pc = "done" /\ req[r].code = 500
                   /\ req[r].text = mkdirs[r][1].err
                   /\ upcalls[r] = <<>>
                   /\ \A c \in cbs : c.req # r
            /\ (req[r].pc = "done" /\ req[r].code = 200 /\ Posted(r)
                /\ ~req[r].dir_exist /\ Len(req[r].files) = 1) =>
                   /\ created
                   /\ Len(upcalls[r]) = 1
                   /\ upcalls[r][1].filename = req[r].files[1]
                   /\ req[r].uploaded = 1

C3_Witness ==
    \E r \in Requests :
        /\ req[r].pc = "done" /\ req[r].code = 200
        /\ req[r].dir = "/docs/" /\ req[r].files = <<"report.pdf">>
        /\ req[r].listing.err = PATH_DOESNT_EXIST_MSG
        /\ Len(mkdirs[r]) = 1
        /\ Len(upcalls[r]) = 1 /\ upcalls[r][1].parent_dir = "/docs/"
        /\ req[r].uploaded = 1

(* C4: re-submission is idempotent. A file saved by an upload call stays in *)
(* the remote folder's listing; a later request for a folder whose listing  *)
(* held name n when the request arrived issues no upload call for n, and a  *)
(* one-file batch of n whose listing was taken is answered with success and *)
(* a count of 0.                                                            *)
C4_Resubmission ==
    \A r \in Requests :
        \A n \in req[r].before :
            /\ \A k \in 1..Len(upcalls[r]) : upcalls[r][k].filename # n
            /\ (req[r].pc = "done" /\ req[r].files = <<n>> /\ req[r].dir_exist) =>
                   /\ req[r].code = 200
                   /\ req[r].uploaded = 0
                   /\ mkdirs[r] = <<>>

C4_SavedFilesStayListed ==
    /\ \A d \in Dirs : FilesIn(d) \subseteq FilesIn(d)'
    /\ \A r \in Requests :
           Len(upcalls'[r]) = Len(upcalls[r]) + 1 =>
               LET e == upcalls'[r][Len(upcalls'[r])]
               IN  \A d \in Dirs, n \in Names :
                       (e.reply.stored /\ e.parent_dir = d /\ e.filename = n)
                           => n \in FilesIn(d)'

C4_IdempotentResubmission ==
    [](C4_Resubmission) /\ [][C4_SavedFilesStayListed]_vars

(* "report.pdf" is in no folder at the start: an earlier request put it there. *)
C4_Witness ==
    \E r \in Requests :
        /\ "report.pdf" \in req[r].before
        /\ req[r].files = <<"report.pdf">>
        /\ req[r].pc = "done" /\ req[r].code = 200 /\ req[r].uploaded = 0
        /\ upcalls[r] = <<>>

(* C5: a failed copy of a file's body into the upload request makes that    *)
(* file's upload fail and ends the batch: an upload call whose body is only *)
(* a part of the file is never counted as a success, and is the last call   *)
(* of a request answered with 500.                                          *)
C5_CopyFailureFailsUpload ==
    \A r \in Requests :
        \A k \in 1..Len(upcalls[r]) :
            upcalls[r][k].partial =>
                /\ ~upcalls[r][k].ok
                /\ k = Len(upcalls[r])
                /\ req[r].pc = "done" /\ req[r].code = 500

(* C6: UploadFile succeeds if and only if the upload reply's body is        *)
(* exactly 40 bytes long, whatever the body holds and whatever the HTTP     *)
(* status is.                                                               *)
C6_SuccessIffFortyBytes ==
    \A r \in Requests :
        \A k \in 1..Len(upcalls[r]) :
            LET e == upcalls[r][k]
            IN  /\ e.reply.neterr = "" =>
                       (e.ok <=> e.reply.len = UPLOADED_FILE_HASH_SIZE)
                /\ e.reply.neterr # "" => ~e.ok
                /\ ~e.ok => /\ k = Len(upcalls[r])
                            /\ req[r].pc = "done" /\ req[r].code = 500

C6_Witness ==
    \E r \in Requests :
        \E k \in 1..Len(upcalls[r]) :
            /\ upcalls[r][k].reply.status = 500
            /\ upcalls[r][k].reply.kind = "text"
            /\ upcalls[r][k].reply.len = UPLOADED_FILE_HASH_SIZE
            /\ upcalls[r][k].ok
            /\ req[r].uploaded >= 1

-----------------------------------------------------------------------------
(* Properties of the download relay, checked under SpecDownload *)

(* C8: only the headers of the two lists cross the relay. The upstream      *)
(* request carries exactly the client's values of If-Modified-Since,        *)
(* Accept, Accept-Encoding, Accept-Language, Cache-Control and Pragma, and  *)
(* nothing else; the client response carries the upstream's value of no     *)
(* header but Cache-Control and Last-Modified, and on a 200 carries those.  *)
C8_OnlyListedHeadersCross ==
    LET toUpstream == {"If-Modified-Since", "Accept", "Accept-Encoding",
                       "Accept-Language", "Cache-Control", "Pragma"}
        toClient == {"Cache-Control", "Last-Modified"}
    IN  /\ \A h \in dl.sfr :
               /\ h.name \in toUpstream
               /\ h.value = Get(dl.headers, h.name)
        /\ dl.fetched =>
               \A n \in toUpstream :
                   Get(dl.headers, n) # "" => Header(n, Get(dl.headers, n)) \in dl.sfr
        /\ \A h \in dl.w.headers :
               h.name \notin toClient => h.value # Get(dl.up.headers, h.name)
        /\ \A h \in dl.w.headers :
               h.name \in toClient =>
                   /\ dl.up.code = 200
                   /\ h.value = Get(dl.up.headers, h.name)
        /\ dl.w.code = 200 =>
               \A n \in toClient :
                   Get(dl.up.headers, n) # "" =>
                       Header(n, Get(dl.up.headers, n)) \in dl.w.headers

C8_Witness ==
    /\ dl.w.code = 200
    /\ Get(dl.headers, "Cookie") # ""
    /\ Get(dl.headers, "If-Modified-Since") # ""
    /\ Header("If-Modified-Since", "from client") \in dl.sfr
    /\ Get(dl.up.headers, "Set-Cookie") # ""
    /\ Get(dl.up.headers, "Access-Control-Allow-Origin") # ""
    /\ Header("Last-Modified", "from upstream") \in dl.w.headers

(* C9: an upstream status other than 200 is answered with that status code  *)
(* and the upstream's status text; no block of the upstream body and no     *)
(* upstream header reaches the client.                                      *)
C9_OtherStatusPassedThrough ==
    (dl.fetched /\ dl.up # NoResponse /\ dl.up.code # 200) =>
        /\ dl.pc = "done"
        /\ dl.w.code = dl.up.code
        /\ dl.w.text = dl.up.status
        /\ dl.w.body = <<>> /\ dl.pos = 0 /\ dl.w.flushes = <<>>
        /\ \A h \in dl.w.headers : h.value # Get(dl.up.headers, h.name)

C9_Witness ==
    /\ dl.pc = "done"
    /\ dl.up.code = 304
    /\ dl.w.code = 304 /\ dl.w.text = "304 Not Modified"
    /\ Len(dl.up.body) > 0
    /\ Get(dl.up.headers, "Cache-Control") # ""

(* C10: only a link reply that is a JSON string leads to an upstream fetch. *)
(* An error_msg object, any other JSON, an undecodable body or a failed     *)
(* call is answered with 500, without a fetch and without a body.           *)
C10_NoLinkNoFetch ==
    /\ dl.fetched => dl.resolved /\ dl.reply.neterr = "" /\ dl.reply.body.kind = "string"
    /\ (dl.resolved /\ (dl.reply.neterr # "" \/ dl.reply.body.kind # "string")) =>
           /\ dl.pc = "done"
           /\ dl.w.code = 500
           /\ ~dl.fetched /\ dl.sfr = {}
           /\ dl.w.body = <<>>

C10_Witness ==
    /\ dl.resolved
    /\ dl.reply = Reply("", JError("File not found"))
    /\ dl.pc = "done" /\ dl.w.code = 500 /\ dl.w.text = "File not found"
    /\ ~dl.fetched

-----------------------------------------------------------------------------
(* Claims about startup, checked under SpecStartup *)

Completed(step) == \E i \in DOMAIN st.steps : st.steps[i] = step

(* C7: once the default-repo response has been read, the repository is      *)
(* accepted (startup goes on past GetDefaultRepo) if and only if the        *)
(* response is an object with exists = true and a string repo_id of exactly *)
(* 36 bytes; with exists = false, or with exists = true and a repo_id of    *)
(* any other length, GetDefaultRepo returns an error and log.Fatalln ends   *)
(* startup; no response that is not accepted lets startup continue.         *)
C7_DefaultRepoValidation ==
    st.repo # NoRepoReply =>
        LET r == st.repo
            object == r.neterr = "" /\ r.kind = "object"
            good == /\ object
                    /\ r.exists = "true"
                    /\ r.idkind = "string"
                    /\ r.idlen = REPO_ID_SIZE
        IN  /\ good <=> Completed("repo")
            /\ ~good => /\ st.pc = "exited"
                        /\ st.exit \in {"fatal", "panic"}
                        /\ ~Completed("upload link")
                        /\ ~Completed("serving")
            /\ (object /\ r.exists = "false") =>
                   st.exit = "fatal" /\ st.text = "Repo doesn't exists"
            /\ (object /\ r.exists = "true" /\ r.idkind = "string"
                       /\ r.idlen # REPO_ID_SIZE) =>
                   st.exit = "fatal" /\ st.text = "Invalid default_repo"

(* C7 witness: a response with exists = true and a repo_id one byte short   *)
(* of 36 has been read and startup has ended with the error.                *)
C7_Witness ==
    /\ st.repo.kind = "object"
    /\ st.repo.exists = "true"
    /\ st.repo.idkind = "string"
    /\ st.repo.idlen = REPO_ID_SIZE - 1
    /\ st.pc = "exited"
    /\ st.exit = "fatal"

(* C11: the server serves, and a request is handled, only after startup     *)
(* went, in this order, through a non-empty base URL and token, a ping      *)
(* answered "pong", a validated default repository and the fetch of the     *)
(* upload link, so that the token, the repository id and the upload link    *)
(* are all established; a startup that ended with an error never serves.    *)
C11_ServingOnlyWhenEstablished ==
    /\ (st.pc = "serving" \/ st.handled) =>
           /\ st.steps = <<"configured", "pong", "repo", "upload link", "serving">>
           /\ st.seafile_url # ""
           /\ st.token # ""
           /\ st.default_repo.set /\ st.default_repo.len = REPO_ID_SIZE
           /\ st.upload_link # ""
    /\ st.exit # "" => ~st.handled /\ ~Completed("serving")

(* C14: started with login <username> <password> against a service that    *)
(* works as documented, the process performs the login exchange, prints the *)
(* token and exits with status 0, whether or not a token is configured, and *)
(* never serves; started without the subcommand, with base URL and token    *)
(* configured, it ends only if the server cannot listen.                    *)
C14_LoginSubcommand ==
    /\ IsLogin(st.args) => st.pc # "serving" /\ ~st.handled /\ ~Completed("serving")
    /\ (st.healthy /\ IsLogin(st.args) /\ Len(st.args) >= 4
        /\ st.seafile_url # "" /\ st.pc = "exited") =>
           /\ st.exit = "exit 0"
           /\ Completed("login")
           /\ st.printed # ""
    /\ (st.healthy /\ ~IsLogin(st.args) /\ st.token # "" /\ st.seafile_url # ""
        /\ st.pc = "exited") =>
           st.text = "listen tcp: address already in use"

-----------------------------------------------------------------------------
(* Further properties of the upload relay, checked under Spec *)

RECURSIVE CountOk(_)
CountOk(calls) ==
    IF calls = <<>> THEN 0
    ELSE (IF Head(calls).ok THEN 1 ELSE 0) + CountOk(Tail(calls))

(* C12: a callback is dispatched for an upload call if and only if the call *)
(* returned a 40-byte body, once per call, and for nothing else: every      *)
(* running callback belongs to such a call of its request, with the         *)
(* request's callback URL, folder and file name, and a skipped file has     *)
(* none. The handler does not wait for it: a step in which a callback ends  *)
(* changes nothing of any request, so the answer and the count are the same *)
(* whether the callback has ended, with or without an error, or not.        *)
C12_Dispatch ==
    \A r \in Requests :
        /\ \A k \in 1..Len(upcalls[r]) :
               LET e == upcalls[r][k]
               IN  e.callback <=>
                       (e.reply.neterr = "" /\ e.reply.len = UPLOADED_FILE_HASH_SIZE)
        /\ \A c \in cbs :
               c.req = r =>
                   /\ c.idx < req[r].i
                   /\ req[r].files[c.idx] = c.file
                   /\ ~Listed(c.file, req[r].files_exist)
                   /\ c.url = req[r].callback_url /\ c.folder = req[r].dir
                   /\ \E k \in 1..Len(upcalls[r]) :
                          upcalls[r][k].callback /\ upcalls[r][k].filename = c.file
        /\ Cardinality({ c \in cbs : c.req = r }) <= CountOk(upcalls[r])
        /\ (req[r].pc = "done" /\ req[r].code = 200 /\ Posted(r)) =>
               req[r].uploaded = CountOk(upcalls[r])

C12_NotAwaited ==
    (cbs' # cbs /\ upcalls' = upcalls) => (cbs' \subseteq cbs /\ req' = req)

C12_CallbackPerUploadedFile == [](C12_Dispatch) /\ [][C12_NotAwaited]_vars

(* C12 witness: the handler has answered 200 with a count of 1 while the    *)
(* callback of its upload is still running.                                 *)
C12_Witness ==
    \E r \in Requests :
        /\ req[r].pc = "done" /\ req[r].code = 200 /\ req[r].uploaded = 1
        /\ \E c \in cbs : c.req = r /\ c.file = req[r].files[c.idx]
        /\ \E k \in 1..Len(upcalls[r]) : upcalls[r][k].callback

Ensured(r) ==
    /\ req[r].listing.taken
    /\ \/ req[r].dir_exist
       \/ /\ req[r].listing.err = PATH_DOESNT_EXIST_MSG
          /\ Len(mkdirs[r]) = 1 /\ mkdirs[r][1].err = ""

(* C13: a POST /upload answered with success reports the number of upload   *)
(* calls of the request that returned success, which is the number of       *)
(* submitted files that were not skipped; once the form is parsed and the   *)
(* folder is there, a request without files, and a request whose files are  *)
(* all in the listing, make no upload call and end with success and a       *)
(* count of zero.                                                           *)
C13_CountIsUploads ==
    \A r \in Requests :
        LET unlisted == SelectSeq(req[r].files,
                                  LAMBDA n : ~Listed(n, req[r].files_exist))
        IN  /\ (req[r].pc = "done" /\ req[r].code = 200 /\ Posted(r)) =>
                   /\ req[r].uploaded = CountOk(upcalls[r])
                   /\ req[r].uploaded = Len(upcalls[r])
                   /\ req[r].uploaded = Len(unlisted)
            /\ (req[r].pc = "done" /\ Posted(r) /\ Ensured(r) /\ unlisted = <<>>) =>
                   /\ req[r].code = 200
                   /\ req[r].uploaded = 0
                   /\ upcalls[r] = <<>>

(* C13 witness: a batch of two files that are both in the listing has been  *)
(* answered with success and a count of zero.                               *)
C13_Witness ==
    \E r \in Requests :
        /\ req[r].pc = "done" /\ req[r].code = 200 /\ Posted(r)
        /\ Len(req[r].files) = 2
        /\ \A k \in 1..2 : Listed(req[r].files[k], req[r].files_exist)
        /\ req[r].uploaded = 0 /\ upcalls[r] = <<>>

(* C13 witness for the empty batch. *)
C13_WitnessEmpty ==
    \E r \in Requests :
        /\ req[r].pc = "done" /\ req[r].code = 200 /\ Posted(r)
        /\ req[r].files = <<>> /\ req[r].uploaded = 0

(* C17: an upload call that fails (a transport error, or a reply whose body *)
(* is not 40 bytes long) is the last call of its request: the file is not   *)
(* tried again, no later file is uploaded or called back, and the request   *)
(* is answered 500 with the error's text. The calls before it succeeded,    *)
(* keep their count and their callbacks' dispatch, and what they stored     *)
(* stays in the folder: the failing step cancels no callback and removes    *)
(* no file.                                                                 *)
C17_Failed ==
    \A r \in Requests :
        \A k \in 1..Len(upcalls[r]) :
            LET e == upcalls[r][k]
                failed == e.reply.neterr # "" \/ e.reply.len # UPLOADED_FILE_HASH_SIZE
            IN  failed =>
                    /\ k = Len(upcalls[r])
                    /\ ~e.callback
                    /\ \A c \in cbs : c.req = r => c.idx < req[r].i
                    /\ req[r].files[req[r].i] = e.filename
                    /\ req[r].pc = "done" /\ req[r].code = 500
                    /\ req[r].text = IF e.reply.neterr # "" THEN e.reply.neterr
                                     ELSE "Cannot upload"
                    /\ req[r].uploaded = k - 1
                    /\ \A j \in 1..(k - 1) :
                           /\ upcalls[r][j].ok /\ upcalls[r][j].callback
                           /\ upcalls[r][j].reply.stored =>
                                  upcalls[r][j].filename \in FilesIn(req[r].dir)

C17_NoRollback ==
    \A r \in Requests :
        (Len(upcalls'[r]) = Len(upcalls[r]) + 1
            /\ ~upcalls'[r][Len(upcalls'[r])].ok) =>
                /\ cbs' = cbs
                /\ SubSeq(upcalls'[r], 1, Len(upcalls[r])) = upcalls[r]
                /\ \A d \in Dirs : FilesIn(d) \subseteq FilesIn(d)'

C17_FailedUploadEndsBatch == [](C17_Failed) /\ [][C17_NoRollback]_vars

(* C17 witness: the second file of a batch failed after the first was       *)
(* uploaded; the request is answered 500 and the first file's callback is   *)
(* still on its way.                                                        *)
C17_Witness ==
    \E r \in Requests :
        /\ Len(req[r].files) = 2 /\ Len(upcalls[r]) = 2
        /\ upcalls[r][1].ok /\ upcalls[r][1].reply.stored
        /\ ~upcalls[r][2].ok
        /\ req[r].pc = "done" /\ req[r].code = 500 /\ req[r].uploaded = 1
        /\ upcalls[r][1].filename \in FilesIn(req[r].dir)
        /\ \E c \in cbs : c.req = r /\ c.idx = 1

(* C15: CreateDirectory returns no error only when the reply's body is the  *)
(* JSON string "success"; after any other reply the request is answered 500 *)
(* and makes no upload call.                                                *)
C15_CreateSucceedsOnlyOnSuccess ==
    \A r \in Requests :
        \A k \in 1..Len(mkdirs[r]) :
            LET e == mkdirs[r][k]
            IN  /\ e.err = "" <=> e.reply = MkdirDone
                /\ e.reply # MkdirDone =>
                       /\ req[r].pc = "done" /\ req[r].code = 500
                       /\ upcalls[r] = <<>>

-----------------------------------------------------------------------------
(* Further properties of the download relay, checked under SpecDownload *)

(* C16: while an upstream 200 is streamed without an interruption, what has *)
(* been written is the upstream body up to the position reached, in order   *)
(* and once; every chunk is at most buf_size long and the output has been   *)
(* flushed after every chunk written, the final shorter one included; and   *)
(* when the loop has ended the whole body has been written.                 *)
C16_StreamedAndFlushed ==
    (dl.pc \in {"stream", "done"} /\ dl.fetched /\ dl.up.code = 200
        /\ dl.w.text # "interrupted") =>
        LET f == dl.w.flushes
        IN  /\ dl.w.body = SubSeq(dl.up.body, 1, dl.pos)
            /\ \A k \in 1..Len(f) :
                   /\ f[k] - (IF k = 1 THEN 0 ELSE f[k - 1]) <= buf_size
                   /\ f[k] - (IF k = 1 THEN 0 ELSE f[k - 1]) >= 1
            /\ dl.w.body # <<>> => (f # <<>> /\ f[Len(f)] = Len(dl.w.body))
            /\ dl.pc = "done" => dl.w.body = dl.up.body

-----------------------------------------------------------------------------
(* Requests handled in parallel, checked under SpecConcurrent *)

(* C18: the folder listing is read once per request, before its first      *)
(* upload call, and never again: while a request is handled, what it takes  *)
(* for the folder's files and for the folder's existence does not change,   *)
(* whatever the other request does to the folder. A request skips exactly   *)
(* by its own listing: it makes no upload call for a name its listing held  *)
(* (so the skip of an uploaded file is only had by a request that lists     *)
(* after the upload), and nothing else stops it: two requests handled at    *)
(* the same time can both find the folder absent, both create it and both   *)
(* upload the same name, which is the state C18_Witness describes.          *)
C18_OwnListing ==
    \A r \in Requests :
        /\ upcalls[r] # <<>> => req[r].listing.taken
        /\ mkdirs[r] # <<>> => req[r].listing.taken
        /\ req[r].listing.taken =>
               /\ req[r].files_exist = req[r].listing.files
               /\ req[r].dir_exist = (req[r].listing.err = "")
        /\ \A k \in 1..Len(upcalls[r]) :
               ~Listed(upcalls[r][k].filename, req[r].listing.files)

C18_ReadOnce ==
    \A r \in Requests :
        (req[r].listing.taken /\ req'[r].pc # "idle") =>
            /\ req'[r].listing = req[r].listing
            /\ req'[r].files_exist = req[r].files_exist
            /\ req'[r].dir_exist = req[r].dir_exist

C18_ListingReadOncePerRequest == [](C18_OwnListing) /\ [][C18_ReadOnce]_vars

(* C18 witness: both requests are in progress for the same folder and file  *)
(* name; both were told the folder is absent, both made a create call, and  *)
(* both made an upload call for the name that the service stored.           *)
C18_Witness ==
    \E r, q \in Requests :
        /\ r # q
        /\ req[r].dir = req[q].dir /\ req[r].files = req[q].files
        /\ \A h \in {r, q} :
               /\ req[h].pc \in {"files", "done"}
               /\ req[h].listing.err = PATH_DOESNT_EXIST_MSG /\ ~req[h].dir_exist
               /\ Len(mkdirs[h]) = 1 /\ mkdirs[h][1].err = ""
               /\ Len(upcalls[h]) = 1
               /\ upcalls[h][1].filename = req[h].files[1]
               /\ upcalls[h][1].ok /\ upcalls[h][1].reply.stored

====
